---- MODULE Spec2Model ----
(***************************************************************************)
(* rag/rag_engine.py: a connector that keeps one process-wide handle on a  *)
(* named collection of a remote vector database and wraps three calls on   *)
(* it (add, query, delete + get-or-create).                                *)
(*                                                                         *)
(* The remote service is reached only through the calls the module makes.  *)
(* Its side is modelled as the server state those calls read and write:    *)
(* the collection currently registered under COLLECTION_NAME (live, a      *)
(* collection id, 0 when there is none) and the records it holds (docs).   *)
(* A collection handle denotes a collection id, so a handle taken before a *)
(* delete denotes a collection that no longer exists afterwards.  Every    *)
(* remote call can also fail in transport; a failed call changes nothing   *)
(* on the server.  What the remote add does with an id that is already     *)
(* stored is not decided by the module: both outcomes are modelled.        *)
(***************************************************************************)
EXTENDS Integers, Sequences, FiniteSets, TLC

VARIABLES
    role,       \* per caller: which of the module's functions it invokes
    init,       \* position of the import-time initialization (lines 64-69)
    initReqs,   \* remote calls issued by the initialization, in order
    handle,     \* global `collection`: id of the collection it denotes, 0 = unbound
    live,       \* server: id of the collection named COLLECTION_NAME, 0 = none
    lastUuid,   \* server: last collection id handed out
    docs,       \* server: records of the live collection
    pc,         \* per caller: position inside the function it runs
    op,         \* per caller: the function and its arguments
    h,          \* per caller: the value of global `collection` its call was made on
    created,    \* per caller: the collection get_or_create_collection returned
    reqs,       \* per caller: remote calls issued by the running function, in order
    results,    \* per caller: local `results` of query_vector_db
    ret,        \* per caller: what the function returned or raised
    prior,      \* history, per caller: the record its add found stored under the id
    afterReset  \* history: "intact" once a reset has returned, "again" once a further
                \* reset was called after it, "no" once an ingest has succeeded

vars == <<role, init, initReqs, handle, live, lastUuid, docs, pc, op, h,
          created, reqs, results, ret, prior, afterReset>>

----------------------------------------------------------------------------
(* Values *)

None == <<>>
Some(x) == <<x>>

Callers == {"c1", "c2"}
Texts == {"t1", "t2", "t3"}
QueryTexts == {"q1", "q2"}
CustomerNames == {"Acme", "Globex"}

\* A metadata mapping: the value of its customer_name key, None when it has no such key.
Mappings == {[customer_name |-> None]} \cup {[customer_name |-> Some(n)] : n \in CustomerNames}
EmptyMapping == [customer_name |-> None]
\* The metadata argument of ingest, and what the server stores: a mapping or None.
Metadatas == {None} \cup {Some(m) : m \in Mappings}
\* The customer_filter argument: None (the default), the empty string, or a name.
CustomerFilters == {None, Some("")} \cup {Some(n) : n \in CustomerNames}

MaxResults == 3
MaxCollections == 3
DefaultNResults == 10

\* hashlib.sha256(text.encode("utf-8")).hexdigest(), first 12 hex digits
Sha256Hex(text) ==
    CASE text = "t1" -> "628b49d96dcd"
      [] text = "t2" -> "c44474038d45"
      [] text = "t3" -> "cece8a9cecfb"
      [] OTHER       -> "e3b0c44298fc"

\* The distance the service computes between the embeddings of a query and a text.
Distance(query, text) ==
    CASE query = "q1" /\ text = "t1" -> 1
      [] query = "q1" /\ text = "t2" -> 2
      [] query = "q1" /\ text = "t3" -> 2
      [] query = "q2" /\ text = "t1" -> 3
      [] query = "q2" /\ text = "t2" -> 1
      [] query = "q2" /\ text = "t3" -> 2
      [] OTHER -> 0

Min(a, b) == IF a <= b THEN a ELSE b

----------------------------------------------------------------------------
(* ingest_to_vector_db: the id and the add request *)

\* Faulty variant of DocId: the digest of a fresh hash object, never fed the text.
DocIdOfNothing(text) == Sha256Hex("")
DocId(text) == Sha256Hex(text)

\* Faulty variant of AddRequest: the metadata is not passed on.
AddRequestNoMetadata(text, metadata) ==
    [documents |-> text, metadatas |-> None, ids |-> DocId(text)]
AddRequest(text, metadata) ==
    [documents |-> text, metadatas |-> metadata, ids |-> DocId(text)]

\* The record the server stores for an add request.
Record(req) == [id |-> req.ids, text |-> req.documents, meta |-> req.metadatas]

\* The contents after the server has served an add request: a new id is stored;
\* for an id already stored the service keeps the stored record or replaces it.
RemoteAdd(req, D) ==
    IF \E d \in D : d.id = req.ids
    THEN {D, {d \in D : d.id # req.ids} \cup {Record(req)}}
    ELSE {D \cup {Record(req)}}

----------------------------------------------------------------------------
(* query_vector_db: the filter, the query request and the reshaping *)

\* Python truth value of customer_filter: None and "" are false.
Truthy(customer_filter) == customer_filter # None /\ customer_filter # Some("")

\* Faulty variant of Where: the filter is never built.
WhereDropped(customer_filter) == None
Where(customer_filter) ==
    IF Truthy(customer_filter)
    THEN Some([customer_name |-> customer_filter[1]])
    ELSE None

\* Faulty variant of QueryRequest: the default n_results is sent, not the argument.
QueryRequestDefaultN(query, customer_filter, n_results) ==
    [query_texts |-> query, n_results |-> DefaultNResults, where |-> Where(customer_filter)]
QueryRequest(query, customer_filter, n_results) ==
    [query_texts |-> query, n_results |-> n_results, where |-> Where(customer_filter)]

\* The records an equality filter selects (all of them without a filter).
Matching(where, D) ==
    IF where = None THEN D
    ELSE {d \in D : /\ d.meta # None
                    /\ d.meta[1].customer_name = Some(where[1].customer_name)}

IsRanking(s, query) ==
    /\ \A i, j \in DOMAIN s : i # j => s[i] # s[j]
    /\ \A i, j \in DOMAIN s : i < j => Distance(query, s[i].text) <= Distance(query, s[j].text)

\* The responses the service can give to a query request: n_results of the
\* matching records (all of them when there are fewer), nearest first, as the
\* parallel arrays documents[0], metadatas[0], distances[0].
RemoteQuery(req, D) ==
    LET M == Matching(req.where, D)
        n == Min(req.n_results, Cardinality(M))
    IN  {[documents |-> [i \in 1..n |-> s[i].text],
          metadatas |-> [i \in 1..n |-> s[i].meta],
          distances |-> [i \in 1..n |-> Distance(req.query_texts, s[i].text)]] :
            s \in {t \in [1..n -> M] : IsRanking(t, req.query_texts)}}

\* `meta or {}`
MetaOrEmpty(meta) == IF meta = None \/ meta = Some(EmptyMapping) THEN EmptyMapping ELSE meta[1]

ZipLength(r) == Min(Len(r.documents), Min(Len(r.metadatas), Len(r.distances)))

\* lines 105-120: the list of {"text", "metadata", "distance"} built from a response
\* Faulty variant of Retrieved: the list is built back to front.
RetrievedReversed(r) ==
    IF Len(r.documents) = 0 THEN <<>>
    ELSE [i \in 1..ZipLength(r) |->
            [text |-> r.documents[ZipLength(r) + 1 - i],
             metadata |-> MetaOrEmpty(r.metadatas[ZipLength(r) + 1 - i]),
             distance |-> r.distances[ZipLength(r) + 1 - i]]]
Retrieved(r) ==
    IF Len(r.documents) = 0 THEN <<>>
    ELSE [i \in 1..ZipLength(r) |->
            [text |-> r.documents[i],
             metadata |-> MetaOrEmpty(r.metadatas[i]),
             distance |-> r.distances[i]]]

----------------------------------------------------------------------------
(* The remote side of a call made on a collection handle *)

\* Faulty variant of Collection: the collection is looked up by name at each call.
CollectionByName == live
\* The value global `collection` has when a function reads it.
Collection == handle

\* The collection a handle denotes still exists on the server.
Exists(u) == u # 0 /\ u = live

\* The errors a call on handle u can raise.
Errors(u) == {"Transport"} \cup (IF Exists(u) THEN {} ELSE {"NotFound"})

NoOp == [kind |-> "none", text |-> "", metadata |-> None, query |-> "",
         customer_filter |-> None, n_results |-> 0]
NoResults == [documents |-> <<>>, metadatas |-> <<>>, distances |-> <<>>]
NoRet == [status |-> "none", error |-> "", value |-> <<>>]
Ok(value) == [status |-> "ok", error |-> "", value |-> value]
Raised(error) == [status |-> "raised", error |-> error, value |-> <<>>]
Request(name, ok) == [call |-> name, ok |-> ok]

----------------------------------------------------------------------------
(* Initial states *)

InitCommon ==
    /\ init = "start"
    /\ initReqs = <<>>
    /\ handle = 0
    /\ \E u \in {0, 1} : live = u /\ lastUuid = u
    /\ docs = {}
    /\ pc = [c \in Callers |-> "idle"]
    /\ op = [c \in Callers |-> NoOp]
    /\ h = [c \in Callers |-> 0]
    /\ created = [c \in Callers |-> 0]
    /\ reqs = [c \in Callers |-> <<>>]
    /\ results = [c \in Callers |-> NoResults]
    /\ ret = [c \in Callers |-> NoRet]
    /\ prior = [c \in Callers |-> None]
    /\ afterReset = "no"

\* One caller: the functions run one after the other.
Init == InitCommon /\ role = [c \in Callers |-> IF c = "c1" THEN "any" ELSE "off"]
\* Two callers whose remote calls interleave: one ingests and queries while the
\* other runs the maintenance function reset_collection.
InitConcurrent ==
    InitCommon /\ role = [c \in Callers |-> IF c = "c1" THEN "client" ELSE "maintenance"]

----------------------------------------------------------------------------
(* get_vector_client_and_collection and the import-time try/except *)

InitUnchanged ==
    UNCHANGED <<role, pc, op, h, created, reqs, results, ret, prior, afterReset>>

\* line 44: client.heartbeat() returns
InitHeartbeatOk ==
    /\ init = "start"
    /\ init' = "connected"
    /\ initReqs' = Append(initReqs, Request("heartbeat", TRUE))
    /\ UNCHANGED <<handle, live, lastUuid, docs>>
    /\ InitUnchanged

\* Faulty variant of InitHeartbeatFail: the except clause does not re-raise.
InitHeartbeatSwallowed ==
    /\ init = "start"
    /\ init' = "connected"
    /\ initReqs' = Append(initReqs, Request("heartbeat", FALSE))
    /\ UNCHANGED <<handle, live, lastUuid, docs>>
    /\ InitUnchanged

\* lines 46-48 and 67-69: client.heartbeat() raises, the error is re-raised twice
InitHeartbeatFail ==
    /\ init = "start"
    /\ init' = "failed"
    /\ initReqs' = Append(initReqs, Request("heartbeat", FALSE))
    /\ UNCHANGED <<handle, live, lastUuid, docs>>
    /\ InitUnchanged

\* lines 55-60 and 65: get_or_create_collection returns, the globals are bound
InitGetOrCreateOk ==
    /\ init = "connected"
    /\ init' = "ready"
    /\ initReqs' = Append(initReqs, Request("get_or_create_collection", TRUE))
    /\ IF live = 0
       THEN live' = lastUuid + 1 /\ lastUuid' = lastUuid + 1 /\ docs' = {}
       ELSE UNCHANGED <<live, lastUuid, docs>>
    /\ handle' = live'
    /\ InitUnchanged

\* lines 55 and 67-69: get_or_create_collection raises
InitGetOrCreateFail ==
    /\ init = "connected"
    /\ init' = "failed"
    /\ initReqs' = Append(initReqs, Request("get_or_create_collection", FALSE))
    /\ UNCHANGED <<handle, live, lastUuid, docs>>
    /\ InitUnchanged

----------------------------------------------------------------------------
(* ingest_to_vector_db *)

Idle(c) == init = "ready" /\ pc[c] = "idle"

\* lines 76-78: the id is computed and global `collection` is read
IngestBegin(c, text, metadata) ==
    /\ Idle(c)
    /\ role[c] \in {"any", "client"}
    /\ pc' = [pc EXCEPT ![c] = "ingest_add"]
    /\ op' = [op EXCEPT ![c] = [NoOp EXCEPT !.kind = "ingest", !.text = text,
                                            !.metadata = metadata]]
    /\ h' = [h EXCEPT ![c] = Collection]
    /\ UNCHANGED <<role, init, initReqs, handle, live, lastUuid, docs, created,
                   reqs, results, ret, afterReset, prior>>

\* lines 78-83: collection.add returns
IngestAddOk(c) ==
    /\ pc[c] = "ingest_add"
    /\ Exists(h[c])
    /\ docs' \in RemoteAdd(AddRequest(op[c].text, op[c].metadata), docs)
    /\ prior' = [prior EXCEPT ![c] =
                    IF \E d \in docs : d.id = DocId(op[c].text)
                    THEN Some(CHOOSE d \in docs : d.id = DocId(op[c].text))
                    ELSE None]
    /\ reqs' = [reqs EXCEPT ![c] = Append(@, Request("add", TRUE))]
    /\ ret' = [ret EXCEPT ![c] = Ok(<<>>)]
    /\ pc' = [pc EXCEPT ![c] = "done"]
    /\ afterReset' = "no"
    /\ UNCHANGED <<role, init, initReqs, handle, live, lastUuid, op, h, created, results>>

\* Faulty variant of IngestAddFail: a failed add is tried once more.
IngestAddRetry(c) ==
    /\ pc[c] = "ingest_add"
    /\ \E e \in Errors(h[c]) :
        /\ reqs' = [reqs EXCEPT ![c] = Append(@, Request("add", FALSE))]
        /\ IF Len(reqs[c]) = 0
           THEN UNCHANGED <<ret, pc>>
           ELSE /\ ret' = [ret EXCEPT ![c] = Raised(e)]
                /\ pc' = [pc EXCEPT ![c] = "done"]
    /\ UNCHANGED <<role, init, initReqs, handle, live, lastUuid, docs, op, h,
                   created, results, afterReset, prior>>

\* line 78: collection.add raises, the error leaves the function
IngestAddFail(c) ==
    /\ pc[c] = "ingest_add"
    /\ \E e \in Errors(h[c]) :
        /\ reqs' = [reqs EXCEPT ![c] = Append(@, Request("add", FALSE))]
        /\ ret' = [ret EXCEPT ![c] = Raised(e)]
        /\ pc' = [pc EXCEPT ![c] = "done"]
    /\ UNCHANGED <<role, init, initReqs, handle, live, lastUuid, docs, op, h,
                   created, results, afterReset, prior>>

----------------------------------------------------------------------------
(* query_vector_db *)

\* lines 96-98: the filter is built and global `collection` is read
QueryBegin(c, query, customer_filter, n_results) ==
    /\ Idle(c)
    /\ role[c] \in {"any", "client"}
    /\ pc' = [pc EXCEPT ![c] = "query_call"]
    /\ op' = [op EXCEPT ![c] = [NoOp EXCEPT !.kind = "query", !.query = query,
                                            !.customer_filter = customer_filter,
                                            !.n_results = n_results]]
    /\ h' = [h EXCEPT ![c] = Collection]
    /\ UNCHANGED <<role, init, initReqs, handle, live, lastUuid, docs, created,
                   reqs, results, ret, afterReset, prior>>

\* lines 98-120: collection.query returns and the response is reshaped
QueryOk(c) ==
    /\ pc[c] = "query_call"
    /\ Exists(h[c])
    /\ \E r \in RemoteQuery(QueryRequest(op[c].query, op[c].customer_filter,
                                         op[c].n_results), docs) :
        /\ results' = [results EXCEPT ![c] = r]
        /\ ret' = [ret EXCEPT ![c] = Ok(Retrieved(r))]
    /\ reqs' = [reqs EXCEPT ![c] = Append(@, Request("query", TRUE))]
    /\ pc' = [pc EXCEPT ![c] = "done"]
    /\ UNCHANGED <<role, init, initReqs, handle, live, lastUuid, docs, op, h,
                   created, afterReset, prior>>

\* line 98: collection.query raises, the error leaves the function
QueryFail(c) ==
    /\ pc[c] = "query_call"
    /\ \E e \in Errors(h[c]) :
        /\ reqs' = [reqs EXCEPT ![c] = Append(@, Request("query", FALSE))]
        /\ ret' = [ret EXCEPT ![c] = Raised(e)]
        /\ pc' = [pc EXCEPT ![c] = "done"]
    /\ UNCHANGED <<role, init, initReqs, handle, live, lastUuid, docs, op, h,
                   created, results, afterReset, prior>>

----------------------------------------------------------------------------
(* reset_collection *)

\* line 124: reset_collection is entered
ResetBegin(c) ==
    /\ Idle(c)
    /\ role[c] \in {"any", "maintenance"}
    /\ lastUuid < MaxCollections
    /\ pc' = [pc EXCEPT ![c] = "reset_delete"]
    /\ op' = [op EXCEPT ![c] = [NoOp EXCEPT !.kind = "reset"]]
    /\ afterReset' = IF afterReset = "intact" THEN "again" ELSE afterReset
    /\ UNCHANGED <<role, init, initReqs, handle, live, lastUuid, docs, h, created,
                   reqs, results, ret, prior>>

\* Faulty variant of ResetDeleteOk: the collection is not deleted on the server.
ResetDeleteSkipped(c) ==
    /\ pc[c] = "reset_delete"
    /\ live # 0
    /\ reqs' = [reqs EXCEPT ![c] = Append(@, Request("delete_collection", TRUE))]
    /\ pc' = [pc EXCEPT ![c] = "reset_create"]
    /\ UNCHANGED <<role, init, initReqs, handle, live, lastUuid, docs, op, h,
                   created, results, ret, afterReset, prior>>

\* line 125: client.delete_collection(COLLECTION_NAME) returns
ResetDeleteOk(c) ==
    /\ pc[c] = "reset_delete"
    /\ live # 0
    /\ live' = 0
    /\ docs' = {}
    /\ reqs' = [reqs EXCEPT ![c] = Append(@, Request("delete_collection", TRUE))]
    /\ pc' = [pc EXCEPT ![c] = "reset_create"]
    /\ UNCHANGED <<role, init, initReqs, handle, lastUuid, op, h, created,
                   results, ret, afterReset, prior>>

\* Faulty variant of ResetDeleteFail: the error of the delete is swallowed.
ResetDeleteIgnored(c) ==
    /\ pc[c] = "reset_delete"
    /\ reqs' = [reqs EXCEPT ![c] = Append(@, Request("delete_collection", FALSE))]
    /\ pc' = [pc EXCEPT ![c] = "reset_create"]
    /\ UNCHANGED <<role, init, initReqs, handle, live, lastUuid, docs, op, h,
                   created, results, ret, afterReset, prior>>

\* line 125: client.delete_collection raises, the error leaves the function
ResetDeleteFail(c) ==
    /\ pc[c] = "reset_delete"
    /\ \E e \in {"Transport"} \cup (IF live = 0 THEN {"NotFound"} ELSE {}) :
        /\ reqs' = [reqs EXCEPT ![c] = Append(@, Request("delete_collection", FALSE))]
        /\ ret' = [ret EXCEPT ![c] = Raised(e)]
        /\ pc' = [pc EXCEPT ![c] = "done"]
    /\ UNCHANGED <<role, init, initReqs, handle, live, lastUuid, docs, op, h,
                   created, results, afterReset, prior>>

\* line 128: client.get_or_create_collection returns (not yet assigned)
ResetCreateOk(c) ==
    /\ pc[c] = "reset_create"
    /\ IF live = 0
       THEN live' = lastUuid + 1 /\ lastUuid' = lastUuid + 1 /\ docs' = {}
       ELSE UNCHANGED <<live, lastUuid, docs>>
    /\ created' = [created EXCEPT ![c] = live']
    /\ reqs' = [reqs EXCEPT ![c] = Append(@, Request("get_or_create_collection", TRUE))]
    /\ pc' = [pc EXCEPT ![c] = "reset_bind"]
    /\ UNCHANGED <<role, init, initReqs, handle, op, h, results, ret, afterReset, prior>>

\* line 128: client.get_or_create_collection raises, `collection` is not assigned
ResetCreateFail(c) ==
    /\ pc[c] = "reset_create"
    /\ reqs' = [reqs EXCEPT ![c] = Append(@, Request("get_or_create_collection", FALSE))]
    /\ ret' = [ret EXCEPT ![c] = Raised("Transport")]
    /\ pc' = [pc EXCEPT ![c] = "done"]
    /\ UNCHANGED <<role, init, initReqs, handle, live, lastUuid, docs, op, h,
                   created, results, afterReset, prior>>

\* lines 127-132: global `collection` is assigned and the function returns
ResetBind(c) ==
    /\ pc[c] = "reset_bind"
    /\ handle' = created[c]
    /\ ret' = [ret EXCEPT ![c] = Ok(<<>>)]
    /\ pc' = [pc EXCEPT ![c] = "done"]
    /\ afterReset' = "intact"
    /\ UNCHANGED <<role, init, initReqs, live, lastUuid, docs, op, h, created,
                   reqs, results, prior>>

----------------------------------------------------------------------------
\* The caller takes the result; the function's locals are gone.
Return(c) ==
    /\ pc[c] = "done"
    /\ pc' = [pc EXCEPT ![c] = "idle"]
    /\ op' = [op EXCEPT ![c] = NoOp]
    /\ h' = [h EXCEPT ![c] = 0]
    /\ created' = [created EXCEPT ![c] = 0]
    /\ reqs' = [reqs EXCEPT ![c] = <<>>]
    /\ results' = [results EXCEPT ![c] = NoResults]
    /\ ret' = [ret EXCEPT ![c] = NoRet]
    /\ prior' = [prior EXCEPT ![c] = None]
    /\ UNCHANGED <<role, init, initReqs, handle, live, lastUuid, docs, afterReset>>

Next ==
    \/ InitHeartbeatOk
    \/ InitHeartbeatFail
    \/ InitGetOrCreateOk
    \/ InitGetOrCreateFail
    \/ \E c \in Callers, text \in Texts, metadata \in Metadatas : IngestBegin(c, text, metadata)
    \/ \E c \in Callers : IngestAddOk(c)
    \/ \E c \in Callers : IngestAddFail(c)
    \/ \E c \in Callers, query \in QueryTexts, customer_filter \in CustomerFilters,
          n_results \in 1..MaxResults : QueryBegin(c, query, customer_filter, n_results)
    \/ \E c \in Callers : QueryOk(c)
    \/ \E c \in Callers : QueryFail(c)
    \/ \E c \in Callers : ResetBegin(c)
    \/ \E c \in Callers : ResetDeleteOk(c)
    \/ \E c \in Callers : ResetDeleteFail(c)
    \/ \E c \in Callers : ResetCreateOk(c)
    \/ \E c \in Callers : ResetCreateFail(c)
    \/ \E c \in Callers : ResetBind(c)
    \/ \E c \in Callers : Return(c)

Spec == Init /\ [][Next]_vars
SpecConcurrent == InitConcurrent /\ [][Next]_vars

----------------------------------------------------------------------------
(* Properties *)

Done(c, kind) == pc[c] = "done" /\ op[c].kind = kind
Returned(c, kind) == Done(c, kind) /\ ret[c].status = "ok"
\* The step in which caller c's remote add or query is answered.
Answered(c) == pc[c] \in {"ingest_add", "query_call"} /\ pc'[c] = "done"
\* Another caller is inside reset_collection after its delete was served and
\* before global `collection` is assigned.
ResetWindow(c) == \E d \in Callers \ {c} : pc[d] \in {"reset_create", "reset_bind"}
StoredUnder(text) == {d \in docs : d.text = text}

\* C1: a successful ingest of text T leaves exactly one stored record with text
\* T, stored under id sha256_hex(T); when T was already stored, the number of
\* stored records is the same as before the ingest, whatever the metadata.
IdempotentIdentity ==
    [][\A c \in Callers :
        (pc[c] = "ingest_add" /\ pc'[c] = "done" /\ ret'[c].status = "ok") =>
            /\ Cardinality({d \in docs' : d.text = op[c].text}) = 1
            /\ \A d \in docs' : d.text = op[c].text => d.id = Sha256Hex(op[c].text)
            /\ (\E d \in docs : d.text = op[c].text) =>
                    Cardinality(docs') = Cardinality(docs)]_vars

\* C1 witness: an ingest of a text already stored with other metadata has returned,
\* with a second text stored beside it.
IngestedTwice ==
    \E c \in Callers :
        /\ Returned(c, "ingest")
        /\ prior[c] # None
        /\ prior[c][1].meta # op[c].metadata
        /\ Cardinality(docs) >= 2

\* C2 as stated: whenever customer_filter is not None, every returned record's
\* customer_name equals the filter.
FilterAnyString ==
    \A c \in Callers :
        (Returned(c, "query") /\ op[c].customer_filter # None) =>
            \A i \in DOMAIN ret[c].value :
                ret[c].value[i].metadata.customer_name = op[c].customer_filter

\* C2 amended: whenever customer_filter is a non-empty string, every returned
\* record's customer_name equals the filter, and no stored record without a
\* customer_name or with another value is returned.
FilterNonEmptyString ==
    \A c \in Callers :
        (Returned(c, "query") /\ op[c].customer_filter \notin {None, Some("")}) =>
            \A i \in DOMAIN ret[c].value :
                /\ ret[c].value[i].metadata.customer_name = op[c].customer_filter
                /\ \A d \in docs :
                    (d.meta = None \/ d.meta[1].customer_name # op[c].customer_filter)
                        => d.text # ret[c].value[i].text

\* C2 witness: a filtered query returned a record while records of another
\* customer and records without customer_name were stored.
FilteredQueryReturned ==
    \E c \in Callers :
        /\ Returned(c, "query")
        /\ op[c].customer_filter = Some("Acme")
        /\ Len(ret[c].value) >= 1
        /\ \E d \in docs : d.meta # None /\ d.meta[1].customer_name = Some("Globex")
        /\ \E d \in docs : d.meta = None \/ d.meta = Some(EmptyMapping)

\* The stored records a customer_filter selects when every string is a filter.
SelectedByAnyString(customer_filter) ==
    IF customer_filter = None THEN docs
    ELSE {d \in docs : d.meta # None /\ d.meta[1].customer_name = customer_filter}
\* The stored records a customer_filter selects when "" means no filter.
SelectedByNonEmptyString(customer_filter) ==
    IF customer_filter \in {None, Some("")} THEN docs
    ELSE {d \in docs : d.meta # None /\ d.meta[1].customer_name = customer_filter}

\* C3 as stated: a query returns at most n_results records, and exactly the M
\* stored records matching the filter when M < n_results, M counting the records
\* whose customer_name equals the filter whenever a filter is given.
ResultBoundAnyString ==
    \A c \in Callers :
        Returned(c, "query") =>
            LET M == Cardinality(SelectedByAnyString(op[c].customer_filter))
            IN  /\ Len(ret[c].value) <= op[c].n_results
                /\ M < op[c].n_results => Len(ret[c].value) = M

\* C3 amended: the same, with M counting all stored records when the filter is
\* None or the empty string.
ResultBound ==
    \A c \in Callers :
        Returned(c, "query") =>
            LET M == Cardinality(SelectedByNonEmptyString(op[c].customer_filter))
            IN  /\ Len(ret[c].value) <= op[c].n_results
                /\ M < op[c].n_results => Len(ret[c].value) = M

\* C3 witness: with three records stored, one of them Acme's, a query filtered on
\* Acme asking for three results returned exactly one.
FewerMatchesThanAsked ==
    \E c \in Callers :
        /\ Returned(c, "query")
        /\ op[c].customer_filter = Some("Acme")
        /\ op[c].n_results = 3
        /\ Cardinality(docs) = 3
        /\ Len(ret[c].value) = 1

\* C4 as stated: from a successful reset until the next successful ingest every
\* query that the service answers returns the empty list; none raises for want
\* of the collection.
ResetThenEmptyUntilIngest ==
    afterReset # "no" =>
        \A c \in Callers :
            Done(c, "query") => (ret[c] = Ok(<<>>) \/ ret[c].error = "Transport")

\* C4 amended: from a successful reset until the next successful ingest the
\* collection holds no record and no query returns one; until the next
\* successful ingest or the next call of reset_collection, every query that the
\* service answers returns the empty list.
ResetDestroys ==
    /\ afterReset # "no" =>
        /\ docs = {}
        /\ \A c \in Callers : Done(c, "query") => ret[c].value = <<>>
    /\ afterReset = "intact" =>
        \A c \in Callers :
            Done(c, "query") => (ret[c] = Ok(<<>>) \/ ret[c].error = "Transport")

\* C4 witness: a query issued after a reset (of a collection that an earlier
\* reset had created) has returned the empty list.
QueriedAfterReset ==
    \E c \in Callers :
        /\ afterReset = "intact"
        /\ Returned(c, "query")
        /\ ret[c].value = <<>>
        /\ h[c] = 3

\* C5 as stated: after a successful ingest(T, m) the metadata stored for T is m.
UpsertOverwrites ==
    \A c \in Callers :
        Returned(c, "ingest") =>
            \A d \in StoredUnder(op[c].text) : d.meta = op[c].metadata

\* C5 amended: after a successful ingest(T, m) exactly one record is stored for
\* T, and its metadata is m or the metadata that was stored for T before the
\* call, as the remote add decides.
AddKeepsOrOverwrites ==
    \A c \in Callers :
        Returned(c, "ingest") =>
            /\ Cardinality(StoredUnder(op[c].text)) = 1
            /\ \A d \in StoredUnder(op[c].text) :
                \/ d.meta = op[c].metadata
                \/ prior[c] # None /\ d = prior[c][1]

\* C5 witness: an ingest of a stored text with other metadata returned and the
\* stored metadata is the new one.
MetadataOverwritten ==
    \E c \in Callers :
        /\ Returned(c, "ingest")
        /\ prior[c] # None
        /\ prior[c][1].meta # op[c].metadata
        /\ \A d \in StoredUnder(op[c].text) : d.meta = op[c].metadata

\* C6: a query's result is sorted by non-decreasing distance, and its i-th
\* record holds the i-th text, metadata and distance of the response, which are
\* those of one stored record, the metadata being the empty mapping when None
\* was stored.
ResultOrdering ==
    \A c \in Callers :
        Returned(c, "query") =>
            LET v == ret[c].value
                r == results[c]
            IN  /\ Len(v) = Len(r.documents)
                /\ \A i, j \in DOMAIN v : i < j => v[i].distance <= v[j].distance
                /\ \A i \in DOMAIN v :
                    /\ v[i].text = r.documents[i]
                    /\ v[i].distance = r.distances[i]
                    /\ v[i].metadata = (IF r.metadatas[i] = None THEN EmptyMapping
                                        ELSE r.metadatas[i][1])
                    /\ \E d \in docs :
                        /\ d.text = v[i].text
                        /\ d.meta = r.metadatas[i]
                        /\ Distance(op[c].query, d.text) = v[i].distance

\* C6 witness: a query returned three records at two or more distances, one of
\* them stored without metadata.
RankedResult ==
    \E c \in Callers :
        /\ Returned(c, "query")
        /\ Len(ret[c].value) = 3
        /\ ret[c].value[1].distance < ret[c].value[3].distance
        /\ \E i \in 1..3 : results[c].metadatas[i] = None

\* C7 as stated: an ingest or query answered while a reset is between its delete
\* and the assignment of the new handle is served by the old or by the new
\* collection, so it never fails for want of the collection.
RaceSeesOldOrNew ==
    \A c \in Callers :
        ((Done(c, "ingest") \/ Done(c, "query")) /\ ResetWindow(c)) =>
            ret[c].error # "NotFound"

\* C7 amended: an ingest or query is served only by the collection its handle
\* denotes and only while that collection exists; answered inside a reset's
\* window it is never served: it fails, with the service's not-found error
\* unless transport failed.
RaceSeesOldOrMissing ==
    [][\A c \in Callers :
        Answered(c) =>
            /\ ret'[c].status = "ok" => (h[c] = live /\ h[c] = handle /\ ~ResetWindow(c))
            /\ ret'[c].error = "NotFound" => h[c] # live
            /\ ResetWindow(c) => ret'[c].error \in {"NotFound", "Transport"}]_vars

\* C7 witness: a query was answered with the not-found error while a reset had
\* created the new collection and not yet assigned it.
RacedQueryNotFound ==
    \E c \in Callers :
        /\ Done(c, "query")
        /\ ret[c].error = "NotFound"
        /\ \E d \in Callers \ {c} : pc[d] = "reset_bind"

\* C8: initialization issues the liveness check first; get-or-create is issued
\* only after it succeeded; when it fails, initialization has failed after that
\* single request, `collection` is unbound and no function runs.
FailFastInit ==
    /\ initReqs # <<>> => initReqs[1].call = "heartbeat"
    /\ \A i \in DOMAIN initReqs :
        initReqs[i].call = "get_or_create_collection" =>
            i = 2 /\ initReqs[1] = Request("heartbeat", TRUE)
    /\ (initReqs # <<>> /\ ~initReqs[1].ok) =>
            /\ init = "failed"
            /\ Len(initReqs) = 1
            /\ handle = 0
            /\ \A c \in Callers : pc[c] = "idle"
    /\ init # "ready" => (handle = 0 /\ \A c \in Callers : pc[c] = "idle")

\* C8 witness: the liveness check failed.
HeartbeatFailed ==
    init = "failed" /\ initReqs = <<Request("heartbeat", FALSE)>>

CallsOf(c) == [i \in DOMAIN reqs[c] |-> reqs[c][i].call]

\* C9: a finished ingest issued exactly one add, a finished query exactly one
\* query, a reset at most delete then get-or-create; a failed request is the last
\* one of its call, which has raised.
NoLocalRetry ==
    \A c \in Callers :
        /\ Done(c, "ingest") => CallsOf(c) = <<"add">>
        /\ Done(c, "query") => CallsOf(c) = <<"query">>
        /\ pc[c] \in {"ingest_add", "query_call", "reset_delete"} => reqs[c] = <<>>
        /\ op[c].kind = "reset" =>
             CallsOf(c) \in {<<>>, <<"delete_collection">>,
                             <<"delete_collection", "get_or_create_collection">>}
        /\ Returned(c, "reset") =>
             CallsOf(c) = <<"delete_collection", "get_or_create_collection">>
        /\ \A i \in DOMAIN reqs[c] :
             ~reqs[c][i].ok => (i = Len(reqs[c]) /\ pc[c] = "done" /\ ret[c].status = "raised")

\* C9 witness: an ingest whose add failed has raised after that one request.
IngestRaised ==
    \E c \in Callers :
        Done(c, "ingest") /\ ret[c].status = "raised" /\ reqs[c] = <<Request("add", FALSE)>>

\* C10: when the delete of a reset fails, the call raises at once: no recreate
\* follows, global `collection` keeps its value and the server keeps its records.
FailedResetChangesNothing ==
    [][\A c \in Callers :
        (pc[c] = "reset_delete" /\ reqs'[c] = <<Request("delete_collection", FALSE)>>) =>
            /\ pc'[c] = "done"
            /\ ret'[c].status = "raised"
            /\ handle' = handle
            /\ live' = live
            /\ docs' = docs]_vars

\* C10 witness: a reset raised on its delete while the collection held records.
ResetRaisedOnDelete ==
    \E c \in Callers :
        /\ Done(c, "reset")
        /\ ret[c].status = "raised"
        /\ reqs[c] = <<Request("delete_collection", FALSE)>>
        /\ handle = live
        /\ docs # {}

====
